---- MODULE Spec2Model ----
(***************************************************************************)
(* Model of src/app.py: a Streamlit script that keeps a job queue, a       *)
(* result store and a processing flag in session state, and on every run   *)
(* of the script (a "control cycle") optionally submits a job and, when    *)
(* idle, dequeues one job and processes it: download, transcribe, score,   *)
(* render the candidate segments on a thread pool, zip, store, release.    *)
(*                                                                         *)
(* The collaborators (pytube, ffmpeg, the HTTP APIs) are external: each    *)
(* call is a step whose outcome is chosen nondeterministically among the   *)
(* outcomes the code can observe (return value or raised exception).       *)
(* An exception that the script does not catch ends the script run; the    *)
(* session state survives it.                                              *)
(***************************************************************************)
EXTENDS Integers, Sequences, FiniteSets, TLC

\* ---------------------------------------------------------------- bounds
MaxJobs == 2      \* submissions explored
MaxSegs == 2      \* longest candidate list returned by the scoring call
MaxBatch == 3     \* longest candidate list of the batch explored on its own

\* -------------------------------------------------------------- constants
None == <<>>                       \* Python None; Some(x) is a present value
Some(x) == <<x>>
Sentinel == "Transcript not available."
Text == "text"
ZipName == <<"shorts_bundle.zip", 0>>
VideoName == <<"video.mp4", 0>>
AudioName == <<"video.wav", 0>>

Ids == 1..MaxJobs
Urls == {"u"}
Scores == {1, 2}                   \* scores the scoring call returns in Spec
\* as many scores as candidates, so that lists with all scores distinct and
\* lists with ties both occur
BatchScores == 1..MaxBatch

VARIABLES
  queue,          \* st.session_state.queue: sequence of jobs [id, url]
  results,        \* st.session_state.results: function id -> None | Some(result)
  processing,     \* st.session_state.processing: None | Some(id)
  pc,             \* position of the script run
  current_job,    \* script local current_job: None | Some(job)
  transcript,     \* script local transcript
  segments,       \* script local segments: sequence of candidates
  shorts,         \* script local shorts: value returned by create_shorts_parallel
  zip_file,       \* script local zip_file: None | Some(name)
  futures,        \* state of each submitted render task, by idx
  yielded,        \* idx of the futures as_completed has yielded so far
  shorts_acc,     \* the list `shorts` local to create_shorts_parallel
  progress_calls, \* arguments of the update_progress calls of this batch
  cwd,            \* the process's working directory (0 = the start directory)
  fs,             \* files on disk: set of <<directory, name>>
  submitted,      \* history: ids in order of submission
  started,        \* history: ids in order of dequeue
  ended,          \* history: id -> how the processing of the job ended
  releases        \* history: id -> number of times line 128 ran for the job

vars == <<queue, results, processing, pc, current_job, transcript, segments,
          shorts, zip_file, futures, yielded, shorts_acc, progress_calls,
          cwd, fs, submitted, started, ended, releases>>

session == <<queue, results, processing>>
locals == <<current_job, transcript, segments, shorts, zip_file>>
batch == <<futures, yielded, shorts_acc, progress_calls>>
disk == <<cwd, fs>>
history == <<submitted, started, ended, releases>>

\* ---------------------------------------------------------------- helpers
Range(s) == {s[i] : i \in 1..Len(s)}

SeqsUpTo(S, n) == UNION {[1..k -> S] : k \in 0..n}

\* a candidate as the scoring call returns it; start and end are only handed
\* on to ffmpeg, whose outcome is chosen by the render task's step
Candidates == [viral_score : Scores]
SegLists == SeqsUpTo(Candidates, MaxSegs)
BatchLists == SeqsUpTo([viral_score : BatchScores], MaxBatch)

PutAlone(store, key, value) == [k \in {key} |-> value]   \* the store replaced
Put(store, key, value) ==
  [k \in (DOMAIN store) \cup {key} |-> IF k = key THEN value ELSE store[k]]

ClipFileNoIndex(idx) == <<"short.mp4", 1>>        \* a name without the index
ClipFile(idx) == <<"short.mp4", idx + 1>>
SubtitledFile(idx) == <<"short_subtitled.mp4", idx + 1>>

\* every task returning the score of the first candidate
ProcessSegmentResultFirstScore(segs, idx) ==
  [file |-> SubtitledFile(idx), viral_score |-> segs[1].viral_score]

\* the dict process_segment returns for the candidate at idx
ProcessSegmentResult(segs, idx) ==
  [file |-> SubtitledFile(idx), viral_score |-> segs[idx + 1].viral_score]

\* sorted(shorts, key=viral_score, reverse=True): a stable sort, so an element
\* goes behind every element whose key is not smaller
RECURSIVE InsertDesc(_, _)
InsertDesc(s, x) ==
  IF s = <<>> THEN <<x>>
  ELSE IF Head(s).viral_score >= x.viral_score
       THEN <<Head(s)>> \o InsertDesc(Tail(s), x)
       ELSE <<x>> \o s

\* the sort with reverse=True left out
RECURSIVE InsertAsc(_, _)
InsertAsc(s, x) ==
  IF s = <<>> THEN <<x>>
  ELSE IF Head(s).viral_score <= x.viral_score
       THEN <<Head(s)>> \o InsertAsc(Tail(s), x)
       ELSE <<x>> \o s

RECURSIVE SortShortsAscending(_)
SortShortsAscending(s) ==
  IF s = <<>> THEN <<>>
  ELSE InsertAsc(SortShortsAscending(SubSeq(s, 1, Len(s) - 1)), s[Len(s)])

\* a sort that is not stable: an element goes in front of its equals
RECURSIVE InsertBeforeEquals(_, _)
InsertBeforeEquals(s, x) ==
  IF s = <<>> THEN <<x>>
  ELSE IF Head(s).viral_score > x.viral_score
       THEN <<Head(s)>> \o InsertBeforeEquals(Tail(s), x)
       ELSE <<x>> \o s

RECURSIVE SortShortsUnstable(_)
SortShortsUnstable(s) ==
  IF s = <<>> THEN <<>>
  ELSE InsertBeforeEquals(SortShortsUnstable(SubSeq(s, 1, Len(s) - 1)), s[Len(s)])

RECURSIVE SortShorts(_)
SortShorts(s) ==
  IF s = <<>> THEN <<>>
  ELSE InsertDesc(SortShorts(SubSeq(s, 1, Len(s) - 1)), s[Len(s)])

ProgressValueFromZero(count, total) == <<count - 1, total>>   \* enumerate from 0
ProgressValue(count, total) == <<count, total>>   \* the fraction count / total

Enqueue(q, job) == Append(q, job)                 \* queue.append
Pop0RestKeeps(q) == q                             \* queue[0] read, not popped
Pop0Rest(q) == Tail(q)                            \* what queue.pop(0) leaves
CanDequeueNotIdle == queue # <<>>                 \* the idle test left out
CanDequeue == processing = None /\ queue # <<>>   \* line 105
HasSegmentsAlways(segs) == TRUE                   \* `if segments is not None:`
HasSegments(segs) == Len(segs) > 0                \* `if segments:`
ShutdownNoWait(fut) == TRUE                       \* shutdown(wait=False)
ShutdownDone(fut) == \A i \in DOMAIN fut : fut[i] # "running"

Unfinished(fut) == [i \in {j \in DOMAIN fut : fut[j] = "running"} |-> fut[i]]

\* ------------------------------------------------------------------- Init
Init ==
  /\ queue = <<>>
  /\ results = [k \in {} |-> None]
  /\ processing = None
  /\ pc = "idle"
  /\ current_job = None
  /\ transcript = None
  /\ segments = <<>>
  /\ shorts = <<>>
  /\ zip_file = None
  /\ futures = [k \in {} |-> ""]
  /\ yielded = {}
  /\ shorts_acc = <<>>
  /\ progress_calls = <<>>
  /\ cwd = 0
  /\ fs = {}
  /\ submitted = <<>>
  /\ started = <<>>
  /\ ended = [k \in {} |-> ""]
  /\ releases = [i \in Ids |-> 0]

\* ------------------------------------------------- end of a script run
\* the script's locals do not survive the run; the futures that are still
\* running do (they belong to worker threads of the process)
ResetLocals ==
  /\ current_job' = None
  /\ transcript' = None
  /\ segments' = <<>>
  /\ shorts' = <<>>
  /\ zip_file' = None
  /\ futures' = Unfinished(futures)
  /\ yielded' = {}
  /\ shorts_acc' = <<>>
  /\ progress_calls' = <<>>

\* an exception nothing catches: the run stops where it is, so lines 121-128
\* are not reached and session state is left as it was
Raise(why) ==
  /\ pc' = "idle"
  /\ ended' = Put(ended, current_job[1].id, why)
  /\ ResetLocals
  /\ UNCHANGED <<session, disk, submitted, started, releases>>

\* ------------------------------------------------------ lines 97-102
\* a run in which the button was pressed and the URL is not empty
SubmitJob(job_id, url) ==
  /\ pc = "idle"
  /\ Len(submitted) < MaxJobs
  /\ job_id = Len(submitted) + 1                   \* a fresh uuid4
  /\ queue' = Enqueue(queue, [id |-> job_id, url |-> url])
  /\ submitted' = Append(submitted, job_id)
  /\ pc' = "check"
  /\ UNCHANGED <<results, processing, locals, batch, disk, started, ended,
                 releases>>

\* a run in which the button was not pressed, or the URL is empty
Rerun ==
  /\ pc = "idle"
  /\ pc' = "check"
  /\ UNCHANGED <<session, locals, batch, disk, history>>

\* ------------------------------------------------------ lines 105-112
Dequeue ==
  /\ pc = "check"
  /\ CanDequeue
  /\ current_job' = Some(Head(queue))
  /\ queue' = Pop0Rest(queue)
  /\ processing' = Some(Head(queue).id)
  /\ started' = Append(started, Head(queue).id)
  /\ cwd' = Len(started) + 1                       \* mkdtemp, chdir
  /\ pc' = "download"
  /\ UNCHANGED <<results, transcript, segments, shorts, zip_file, batch, fs,
                 submitted, ended, releases>>

\* line 105 is false: the run goes on to show the results (lines 130-138)
SkipCycle ==
  /\ pc = "check"
  /\ ~CanDequeue
  /\ pc' = "idle"
  /\ UNCHANGED <<session, locals, batch, disk, history>>

\* ------------------------------------------------------ lines 113, 19-23
DownloadOk ==
  /\ pc = "download"
  /\ fs' = fs \cup {<<cwd, VideoName>>}
  /\ pc' = "transcribe"
  /\ UNCHANGED <<session, locals, batch, cwd, history>>

DownloadRaises ==
  /\ pc = "download"
  /\ Raise("download")

\* ------------------------------------------------------ lines 114, 25-37
Transcribe(t) ==
  /\ pc = "transcribe"
  /\ transcript' = Some(t)
  /\ fs' = fs \cup {<<cwd, AudioName>>}
  /\ pc' = "analyze"
  /\ UNCHANGED <<session, current_job, segments, shorts, zip_file, batch,
                 cwd, history>>

\* ffmpeg missing, no audio file to open, or the request itself failing
TranscribeRaises ==
  /\ pc = "transcribe"
  /\ Raise("transcribe")

\* ------------------------------------------------------ lines 115, 39-54
Analyze(segs) ==
  /\ pc = "analyze"
  /\ segments' = segs
  /\ pc' = "branch"
  /\ UNCHANGED <<session, current_job, transcript, shorts, zip_file, batch,
                 disk, history>>

\* requests.post is outside the try
AnalyzeRaises ==
  /\ pc = "analyze"
  /\ Raise("analyze")

\* ------------------------------------------------------ lines 124-126
StoreNone ==
  /\ pc = "branch"
  /\ ~HasSegments(segments)
  /\ results' = Put(results, current_job[1].id, None)
  /\ pc' = "release"
  /\ UNCHANGED <<queue, processing, locals, batch, disk, history>>

\* ------------------------------------------------------ lines 117-119, 70-73
Dispatch ==
  /\ pc = "branch"
  /\ HasSegments(segments)
  /\ futures' = [idx \in 0..(Len(segments) - 1) |-> "running"]
  /\ yielded' = {}
  /\ shorts_acc' = <<>>
  /\ progress_calls' = <<>>
  /\ transcript' = None      \* handed to the tasks; the script reads it no more
  /\ pc' = "render"
  /\ UNCHANGED <<session, current_job, segments, shorts, zip_file, disk,
                 history>>

\* ------------------------------------------------------ lines 56-67
\* a render task ends, on a worker thread.  ffmpeg's exit status is not
\* looked at, so a task returns its dict whether or not the files were
\* written; it raises when the candidate or the transcript is malformed or
\* ffmpeg cannot be started
TaskWrites(idx, outcome) ==
  IF outcome = "ok" THEN {<<cwd, ClipFile(idx)>>, <<cwd, SubtitledFile(idx)>>}
  ELSE {}

\* the two files a task's ffmpeg calls are told to write (lines 58-66)
TaskTargets(idx) == {<<cwd, ClipFile(idx)>>, <<cwd, SubtitledFile(idx)>>}

TaskEnds(idx, outcome) ==
  /\ idx \in DOMAIN futures
  /\ futures[idx] = "running"
  /\ futures' = [futures EXCEPT ![idx] = outcome]
  /\ fs' = fs \cup TaskWrites(idx, outcome)
  /\ UNCHANGED <<session, pc, locals, yielded, shorts_acc, progress_calls,
                 cwd, history>>

Returned(outcome) == outcome \in {"ok", "no_file"}

\* ------------------------------------------------------ lines 74-76
\* as_completed yields a finished future not yielded before; its result is
\* appended and the progress callback is called
Collect(idx) ==
  /\ pc = "render"
  /\ idx \in DOMAIN futures
  /\ idx \notin yielded
  /\ Returned(futures[idx])
  /\ yielded' = yielded \cup {idx}
  /\ shorts_acc' = Append(shorts_acc, ProcessSegmentResult(segments, idx))
  /\ progress_calls' =
       Append(progress_calls, ProgressValue(Cardinality(yielded) + 1, Len(segments)))
  /\ UNCHANGED <<session, pc, locals, futures, disk, history>>

\* future.result() re-raises the task's exception: the loop is left
CollectRaises(idx) ==
  /\ pc = "render"
  /\ idx \in DOMAIN futures
  /\ idx \notin yielded
  /\ futures[idx] = "raised"
  /\ yielded' = yielded \cup {idx}
  /\ pc' = "unwind"
  /\ UNCHANGED <<session, locals, futures, shorts_acc, progress_calls, disk,
                 history>>

\* the with block's exit is executor.shutdown(wait=True); after it the
\* exception leaves create_shorts_parallel and then the script
UnwindRaises ==
  /\ pc = "unwind"
  /\ ShutdownDone(futures)
  /\ Raise("render")

\* ------------------------------------------------------ lines 72, 77
\* as_completed is exhausted, the with block is left, the sorted list returned
ReturnShorts ==
  /\ pc = "render"
  /\ yielded = DOMAIN futures
  /\ ShutdownDone(futures)
  /\ shorts' = SortShorts(shorts_acc)
  /\ pc' = "zip"
  /\ UNCHANGED <<session, current_job, transcript, segments, zip_file, batch,
                 disk, history>>

\* ------------------------------------------------------ lines 120, 79-84
AllFilesThere == \A i \in 1..Len(shorts) : <<cwd, shorts[i].file>> \in fs

CreateZip ==
  /\ pc = "zip"
  /\ AllFilesThere
  /\ fs' = fs \cup {<<cwd, ZipName>>}
  /\ zip_file' = Some(ZipName)
  /\ pc' = "store"
  /\ UNCHANGED <<session, current_job, transcript, segments, shorts, batch,
                 cwd, history>>

\* zipf.write of a file that ffmpeg did not produce
CreateZipRaises ==
  /\ pc = "zip"
  /\ ~AllFilesThere
  /\ Raise("zip")

\* ------------------------------------------------------ line 121
StoreResult ==
  /\ pc = "store"
  /\ results' = Put(results, current_job[1].id,
                    Some([shorts |-> shorts, zip |-> zip_file[1]]))
  /\ pc' = "release"
  /\ UNCHANGED <<queue, processing, locals, batch, disk, history>>

\* ------------------------------------------------------ line 128
Release ==
  /\ pc = "release"
  /\ processing' = None
  /\ releases' = [releases EXCEPT ![current_job[1].id] = @ + 1]
  /\ ended' = Put(ended, current_job[1].id, "released")
  /\ pc' = "idle"
  /\ ResetLocals
  /\ UNCHANGED <<queue, results, disk, submitted, started>>

Outcomes == {"ok", "no_file", "raised"}
Transcripts == {Text, Sentinel}

Next ==
  \/ \E job_id \in Ids, url \in Urls : SubmitJob(job_id, url)
  \/ Rerun
  \/ Dequeue
  \/ SkipCycle
  \/ DownloadOk
  \/ DownloadRaises
  \/ \E t \in Transcripts : Transcribe(t)
  \/ TranscribeRaises
  \/ \E segs \in SegLists : Analyze(segs)
  \/ AnalyzeRaises
  \/ StoreNone
  \/ Dispatch
  \/ \E idx \in DOMAIN futures, outcome \in Outcomes : TaskEnds(idx, outcome)
  \/ \E idx \in DOMAIN futures : Collect(idx)
  \/ \E idx \in DOMAIN futures : CollectRaises(idx)
  \/ UnwindRaises
  \/ ReturnShorts
  \/ CreateZip
  \/ CreateZipRaises
  \/ StoreResult
  \/ Release

Spec == Init /\ [][Next]_vars

\* ------------------------------------------------------------------------
\* The same program under the scheduling the claims about progress assume:
\* control cycles keep occurring (the script is run again and again) and
\* every call the script makes comes back, by returning or by raising.
\* Submissions are the user's and are not forced.
ScriptStep ==
  \/ Dequeue
  \/ SkipCycle
  \/ DownloadOk
  \/ DownloadRaises
  \/ \E t \in Transcripts : Transcribe(t)
  \/ TranscribeRaises
  \/ \E segs \in SegLists : Analyze(segs)
  \/ AnalyzeRaises
  \/ StoreNone
  \/ Dispatch
  \/ \E idx \in DOMAIN futures, outcome \in Outcomes : TaskEnds(idx, outcome)
  \/ \E idx \in DOMAIN futures : Collect(idx)
  \/ \E idx \in DOMAIN futures : CollectRaises(idx)
  \/ UnwindRaises
  \/ ReturnShorts
  \/ CreateZip
  \/ CreateZipRaises
  \/ StoreResult
  \/ Release

SpecLive == Init /\ [][Next]_vars /\ WF_vars(Rerun) /\ WF_vars(ScriptStep)

\* ------------------------------------------------------------------------
\* One batch on its own: the state in which the scoring call has just
\* returned for the first job submitted, with candidate lists up to MaxBatch
\* long, and from there the rest of that job's processing.
InitBatch ==
  /\ queue = <<>>
  /\ results = [k \in {} |-> None]
  /\ processing = Some(1)
  /\ pc = "branch"
  /\ current_job = Some([id |-> 1, url |-> "u"])
  /\ transcript \in {Some(t) : t \in Transcripts}
  /\ segments \in BatchLists
  /\ shorts = <<>>
  /\ zip_file = None
  /\ futures = [k \in {} |-> ""]
  /\ yielded = {}
  /\ shorts_acc = <<>>
  /\ progress_calls = <<>>
  /\ cwd = 1
  /\ fs = {<<1, VideoName>>, <<1, AudioName>>}
  /\ submitted = <<1>>
  /\ started = <<1>>
  /\ ended = [k \in {} |-> ""]
  /\ releases = [i \in Ids |-> 0]

NextBatch ==
  \/ StoreNone
  \/ Dispatch
  \/ \E idx \in DOMAIN futures, outcome \in Outcomes : TaskEnds(idx, outcome)
  \/ \E idx \in DOMAIN futures : Collect(idx)
  \/ \E idx \in DOMAIN futures : CollectRaises(idx)
  \/ UnwindRaises
  \/ ReturnShorts
  \/ CreateZip
  \/ CreateZipRaises
  \/ StoreResult
  \/ Release

SpecBatch == InitBatch /\ [][NextBatch]_vars

\* ------------------------------------------------------------------------
\* Properties
\* ------------------------------------------------------------------------
InBody == pc \notin {"idle", "check"}
NoneRunning == \A i \in DOMAIN futures : futures[i] # "running"
JobId == current_job[1].id
Stored(j) == j \in DOMAIN results
IsPrefix(s, t) == Len(s) <= Len(t) /\ s = SubSeq(t, 1, Len(s))
Pos(s, x) == CHOOSE i \in 1..Len(s) : s[i] = x
FlagOk == processing = None \/ \E j \in Ids : processing = Some(j)

\* C1: the processing flag is idle or holds the id of one job, which is the
\* job the script is working on whenever it is working on one; and a job is
\* dequeued only in a step that starts with the flag idle and sets the flag to
\* that job's id.
AtMostOneProcessing ==
  [][ /\ FlagOk /\ FlagOk'
      /\ (InBody' => processing' = Some(current_job'[1].id))
      /\ (started' # started =>
            /\ processing = None
            /\ queue # <<>>
            /\ processing' = Some(Head(queue).id)) ]_vars

SecondJobProcessing ==
  /\ Len(started) = 2
  /\ pc = "render"
  /\ processing = Some(started[2])
  /\ started[1] \in DOMAIN ended

\* C2: for every job whose processing has ended, on whichever path, the slot
\* was released exactly once, and between script runs the flag is idle.
SlotReleasedOncePerJob ==
  /\ \A j \in DOMAIN ended : releases[j] = 1
  /\ (pc = "idle" => processing = None)

\* C3: a job whose download failed has the failure marker stored under its id.
DownloadFailureMarksJobFailed ==
  \A j \in DOMAIN ended :
    ended[j] = "download" => Stored(j) /\ results[j] = None

\* C4: a job one of whose render tasks failed (it raised, or ffmpeg left no
\* file so that the archive could not be written) has the failure marker
\* stored under its id.
RenderFailureMarksJobFailed ==
  \A j \in DOMAIN ended :
    ended[j] \in {"render", "zip"} => Stored(j) /\ results[j] = None

DistinctScores ==
  \A i, j \in 1..Len(segments) :
    i # j => segments[i].viral_score # segments[j].viral_score

Returned3 == pc \in {"zip", "store", "release"} /\ Len(segments) > 0

SortedStrictlyDescending ==
  (Returned3 /\ DistinctScores) =>
    /\ Len(shorts) = Len(segments)
    /\ Range(shorts) = Range(shorts_acc)
    /\ \A i \in 1..(Len(shorts) - 1) :
         shorts[i].viral_score > shorts[i + 1].viral_score

ThreeDistinctSortedAfterShuffle ==
  /\ pc = "zip"
  /\ Len(segments) = 3
  /\ DistinctScores
  /\ shorts_acc # shorts
  /\ shorts_acc[1].file # SubtitledFile(0)

\* C7 as claimed: shorts of equal score stand in the order of their
\* candidates in the input list.
TiesKeepEncounterOrder ==
  Returned3 =>
    \A i, j \in 1..Len(shorts) :
      (i < j /\ shorts[i].viral_score = shorts[j].viral_score)
        => shorts[i].file[2] < shorts[j].file[2]

\* C7 as amended: shorts of equal score stand in the order in which their
\* results were collected from as_completed.
TiesKeepCollectionOrder ==
  Returned3 =>
    \A i, j \in 1..Len(shorts) :
      (i < j /\ shorts[i].viral_score = shorts[j].viral_score)
        => Pos(shorts_acc, shorts[i]) < Pos(shorts_acc, shorts[j])

TieAgainstEncounterOrder ==
  /\ pc = "zip"
  /\ \E i, j \in 1..Len(shorts) :
       /\ i < j
       /\ shorts[i].viral_score = shorts[j].viral_score
       /\ shorts[i].file[2] > shorts[j].file[2]

\* C8: the k-th call of the progress callback carries k/N; the values
\* increase strictly; when the batch returns there have been exactly N calls;
\* and the N-th call, which carries 1, is made with no task still running.
FracLess(a, b) == a[1] * b[2] < b[1] * a[2]
FracIsOne(a) == a[1] = a[2] /\ a[2] # 0

ProgressContract ==
  LET n == Len(segments) IN
  /\ Len(progress_calls) <= n
  /\ \A k \in 1..Len(progress_calls) : progress_calls[k] = <<k, n>>
  /\ \A k \in 1..(Len(progress_calls) - 1) :
       FracLess(progress_calls[k], progress_calls[k + 1])
  /\ \A k \in 1..Len(progress_calls) : FracIsOne(progress_calls[k]) <=> k = n
  /\ (Returned3 => Len(progress_calls) = n)
  /\ ((n >= 1 /\ Len(progress_calls) = n) => NoneRunning)

ThreeProgressCalls ==
  /\ pc = "zip"
  /\ Len(segments) = 3
  /\ Len(progress_calls) = 3
  /\ shorts_acc[1].file = SubtitledFile(2)

\* C9: a job for which the scoring call returned no candidate gets the
\* failure marker under its id, with no render task dispatched and no archive
\* written.
EmptyCandidatesMarkFailure ==
  (pc = "release" /\ segments = <<>>) =>
    /\ Stored(JobId)
    /\ results[JobId] = None
    /\ DOMAIN futures = {}
    /\ zip_file = None
    /\ <<cwd, ZipName>> \notin fs

EmptyAfterSentinel ==
  /\ pc = "release"
  /\ segments = <<>>
  /\ transcript = Some(Sentinel)
  /\ Stored(JobId)
  /\ results[JobId] = None

\* C10: whenever the script is not inside a job's processing step, and so
\* whenever it is at the test that dequeues the next job, no render task of
\* an earlier job is still running.
NoRenderAcrossJobs ==
  ~InBody => NoneRunning

SecondJobDequeuedAfterRenders ==
  /\ Len(started) = 2
  /\ pc = "download"
  /\ Stored(started[1])
  /\ results[started[1]] # None
  /\ Len(results[started[1]][1].shorts) = 2

\* C11: under the fair scheduling of SpecLive, every submitted job eventually
\* begins processing (is dequeued), whatever happened to the jobs before it.
EverySubmittedJobStarts ==
  \A j \in Ids : (j \in Range(submitted)) ~> (j \in Range(started))

\* C12: the tasks of one batch are told to write pairwise disjoint files: the
\* clip and the captioned file of a task are two files, neither is a file of
\* another task of the batch, and none is the source video the tasks read.
DisjointOutputs ==
  \A i \in DOMAIN futures :
    /\ Cardinality(TaskTargets(i)) = 2
    /\ <<cwd, VideoName>> \notin TaskTargets(i)
    /\ \A j \in DOMAIN futures : i # j => TaskTargets(i) \cap TaskTargets(j) = {}

ThreeTasksRunning ==
  /\ pc = "render"
  /\ DOMAIN futures = 0..2
  /\ \A i \in DOMAIN futures : futures[i] = "running"

\* C13: a control cycle that reaches the test of line 105 with the queue
\* empty or the processor not idle does nothing: the step it takes leaves the
\* queue, the flag and the result store as they were, ends the run, and
\* records no start, no end and no release of any job.
IdleCycleChangesNothing ==
  [][ (pc = "check" /\ (queue = <<>> \/ processing # None)) =>
        /\ queue' = queue
        /\ processing' = processing
        /\ results' = results
        /\ pc' = "idle"
        /\ started' = started
        /\ ended' = ended
        /\ releases' = releases ]_vars

CycleWhileNotIdle ==
  /\ pc = "check"
  /\ processing # None
  /\ queue # <<>>

\* C14: the list create_shorts_parallel returns has one short per candidate:
\* for every index there is exactly one short naming the captioned file of
\* that index, and it carries the score of the candidate at that index.
OneShortPerCandidate ==
  Returned3 =>
    /\ Len(shorts) = Len(segments)
    /\ \A idx \in 0..(Len(segments) - 1) :
         /\ Cardinality({k \in 1..Len(shorts) : shorts[k].file = SubtitledFile(idx)}) = 1
         /\ \A k \in 1..Len(shorts) :
              shorts[k].file = SubtitledFile(idx)
                => shorts[k].viral_score = segments[idx + 1].viral_score

AllThreeSucceededShuffled ==
  /\ pc = "zip"
  /\ Len(segments) = 3
  /\ \A i \in DOMAIN futures : futures[i] = "ok"
  /\ shorts_acc[1].file = SubtitledFile(1)
  /\ segments[1].viral_score # segments[2].viral_score

\* C15: a step that changes the result store is taken while the slot is
\* held, does not release it, adds or overwrites only the entry of the job
\* holding the slot, and leaves every other entry as it was; no entry is
\* removed.
StoreWritesOnlyCurrentJob ==
  [][ results' # results =>
        /\ processing # None
        /\ processing' = processing
        /\ DOMAIN results' = DOMAIN results \cup {processing[1]}
        /\ \A k \in DOMAIN results : k # processing[1] => results'[k] = results[k] ]_vars

TwoResultsStored ==
  /\ Cardinality(DOMAIN results) = 2
  /\ pc = "release"
  /\ results[started[1]] # None

\* C16: the id in the processing flag is the id of no queued job, no job with
\* a stored result or an ended processing is queued, and no id was dequeued
\* twice.
QueueIds == {queue[i].id : i \in 1..Len(queue)}

ConsumedAtMostOnce ==
  /\ (processing # None => processing[1] \notin QueueIds)
  /\ DOMAIN results \cap QueueIds = {}
  /\ Range(started) \cap QueueIds = {}
  /\ \A i, j \in 1..Len(started) : i # j => started[i] # started[j]

SecondJobStoredBehindFirst ==
  /\ Len(started) = 2
  /\ pc = "store"
  /\ Stored(started[1])
  /\ processing = Some(started[2])

\* C17: between script runs, every file a stored result names (the file of
\* each short and the archive) resolves, from the working directory the
\* process is in, to the file of that name that the job itself wrote.
Resolve(name) == <<cwd, name>>          \* a relative name, as lines 135-137 open it
JobDir(j) == Pos(started, j)            \* the directory made for job j at line 111
NamedBy(r) == {r.zip} \cup {r.shorts[k].file : k \in 1..Len(r.shorts)}

StoredReferencesStayValid ==
  pc = "idle" =>
    \A j \in DOMAIN results :
      results[j] # None =>
        \A f \in NamedBy(results[j][1]) :
          /\ Resolve(f) = <<JobDir(j), f>>
          /\ Resolve(f) \in fs
====
